---- MODULE Spec2Model ----
(***************************************************************************)
(* Model of the savings_manager_cli client: the commands of main.py, the   *)
(* request dispatcher (ApiConsumerFactory), the consumers that build       *)
(* request bodies and the reorder planner                                  *)
(* (UpdatePriorityListApiConsumer._build_patch_data), running against a    *)
(* remote service that owns the priority list.                             *)
(*                                                                         *)
(* One CLI process is one pass  <command> -> run -> print_consumer -> exit *)
(* the steps are split where the process waits for the service.            *)
(***************************************************************************)
EXTENDS Integers, Sequences, FiniteSets, TLC

\* ------------------------------------------------------------------ bounds
\* Largest number of moneyboxes the service holds.
MaxLen == 3
\* Largest step count given on the command line.
MaxSteps == 3
\* Magnitude of the smallest (negative) step count given on the command line.
NegSteps == 1
\* Largest number of entries in a transaction log the service returns.
MaxLogs == 3

Ids == 1..MaxLen
\* Identifiers a caller may name: one more than the service can hold, so an
\* unknown identifier exists even when the service holds MaxLen moneyboxes.
CallerIds == 1..(MaxLen + 1)
StepCounts == (0 - NegSteps)..MaxSteps

\* ------------------------------------------------------- custom_types.py
UP == "up"
DOWN == "down"
MoveDirection == {UP, DOWN}
\* What the caller may type as <direction>; "sideways" stands for any text
\* that is no member of MoveDirection.
DirectionArgs == {"up", "down", "sideways"}

LIST_ALL_MONEYBOXES == "/api/moneyboxes"
LIST_SPECIFIC_MONEYBOX == "/api/moneybox/{moneybox_id}"
ADD_AMOUNT_TO_MONEYBOX == "/api/moneybox/{moneybox_id}/balance/add"
SUB_AMOUNT_TO_MONEYBOX == "/api/moneybox/{moneybox_id}/balance/sub"
TRANSFER_AMOUNT == "/api/moneybox/{moneybox_id}/balance/transfer"
CREATE_MONEYBOX == "/api/moneybox"
UPDATE_MONEYBOX == "/api/moneybox/{moneybox_id}"
SHOW_MONEYBOX_LOGS == "/api/moneybox/{moneybox_id}/transactions"
DELETE_MONEYBOX == "/api/moneybox/{moneybox_id}"
GET_PRIORITYLIST == "/api/prioritylist"
UPDATE_PRIORITYLIST == "/api/prioritylist"
GET_APPSETTINGS == "/api/settings"
UPDATE_APPSETTINGS == "/api/settings"
SEND_TESTEMAIL == "/api/email/send-testemail"

\* The endpoints whose text holds the placeholder {moneybox_id}.
Templated ==
    {LIST_SPECIFIC_MONEYBOX, ADD_AMOUNT_TO_MONEYBOX, SUB_AMOUNT_TO_MONEYBOX,
     TRANSFER_AMOUNT, UPDATE_MONEYBOX, SHOW_MONEYBOX_LOGS, DELETE_MONEYBOX}

\* The two api_consumers modules of the repository.
CLI == "savings_manager_cli/api_consumers.py"
SRC == "src/api_consumers.py"

\* ------------------------------------------------------------- variables
VARIABLES
    server,          \* the service's priority list: a set of entries
    pc,              \* position of the CLI process
    command,         \* the command of main.py the process runs
    args,            \* the arguments the caller gave to the command
    variant,         \* the api_consumers module in use
    consumer,        \* the class of the consumer the command constructs
    moneybox_id,     \* UpdatePriorityListApiConsumer.moneybox_id
    move_direction,  \* UpdatePriorityListApiConsumer.move_direction
    move_steps,      \* UpdatePriorityListApiConsumer.move_steps
    prioritylist,    \* the list fetched inside _build_patch_data
    request_data,    \* ApiConsumerFactory.request_data
    consumer_request,\* ApiConsumerFactory.consumer_request (the partial)
    mode,            \* how the consumer was executed: run or async_run
    requests,        \* the requests this process has put on the wire
    response,        \* ApiConsumerFactory.response (its status code)
    error,           \* the exception / exit that ended the process
    stdout,          \* what print(consumer) wrote
    stale,           \* history: the service's list changed since the read
    read_response,   \* status of the response to the read of _build_patch_data
    content,         \* response.json()["transactionLogs"] as received
    rows             \* the transaction logs print(consumer) rendered

vars == <<server, pc, command, args, variant, consumer, moneybox_id,
          move_direction, move_steps, prioritylist, request_data,
          consumer_request, mode, requests, response, error, stdout,
          stale, read_response, content, rows>>

\* ------------------------------------------------------------- helpers
Max(a, b) == IF a >= b THEN a ELSE b
Min(a, b) == IF a <= b THEN a ELSE b

Entry(id, p) == [moneyboxId |-> id, priority |-> p]

\* Number of entries sorted() puts before entry i: smaller key, or equal key
\* and earlier in the input (sorted() is stable).
RankBefore(list, i) ==
    Cardinality({j \in 1..Len(list) :
        \/ list[j].priority < list[i].priority
        \/ list[j].priority = list[i].priority /\ j < i})

\* Variant: sorted(..., reverse=True), the list in descending priority.
PrioritySorted_Descending(list) ==
    [k \in 1..Len(list) |->
        list[CHOOSE i \in 1..Len(list) : RankBefore(list, i) = Len(list) - k]]

\* Variant: the list is taken in the order received.
PrioritySorted_Unsorted(list) == list

\* sorted(prioritylist, key=lambda item: item["priority"])
PrioritySorted(list) ==
    [k \in 1..Len(list) |->
        list[CHOOSE i \in 1..Len(list) : RankBefore(list, i) = k - 1]]

\* for i, item in enumerate(...): if item["moneyboxId"] == id: ... break
Found(list, id) == \E i \in 1..Len(list) : list[i].moneyboxId = id

\* zero-based index of the first entry of `list` carrying `id`
OldIndex(list, id) ==
    (CHOOSE i \in 1..Len(list) :
        /\ list[i].moneyboxId = id
        /\ \A j \in 1..(i - 1) : list[j].moneyboxId # id) - 1

\* list.pop(i) for a zero-based in-range i: the list without that element
ListPop(list, i) ==
    [k \in 1..(Len(list) - 1) |-> IF k <= i THEN list[k] ELSE list[k + 1]]

\* Variant: list[i] = x, an assignment that overwrites the element at the
\* index instead of inserting before it (appends at the end of the list).
ListInsert_Overwrite(list, i, x) ==
    LET n == Len(list)
        j == IF i < 0 THEN Max(0, i + n) ELSE Min(n, i)
    IN  IF j < n
        THEN [k \in 1..n |-> IF k = j + 1 THEN x ELSE list[k]]
        ELSE Append(list, x)

\* Variant: the element is put after the index instead of before it.
ListInsert_After(list, i, x) ==
    LET n == Len(list)
        j == IF i < 0 THEN Max(0, i + n) ELSE Min(n, i)
        a == Min(n, j + 1)
    IN  SubSeq(list, 1, a) \o <<x>> \o SubSeq(list, a + 1, n)

\* list.insert(i, x): Python counts a negative i from the end and clamps the
\* index into 0..len(list)
ListInsert(list, i, x) ==
    LET n == Len(list)
        j == IF i < 0 THEN Max(0, i + n) ELSE Min(n, i)
    IN  SubSeq(list, 1, j) \o <<x>> \o SubSeq(list, j + 1, n)

\* ------------------------------------------------- the reorder planner
\* Variant: the index wraps around the list instead of being clamped.
NewIndex_Wrap(old_index, length, direction, steps) ==
    IF direction = UP
    THEN (old_index - steps) % length
    ELSE (old_index + steps) % length

\* Variant: the index is not clamped at all.
NewIndex_NoClamp(old_index, length, direction, steps) ==
    IF direction = UP
    THEN old_index - steps
    ELSE old_index + steps

\* new_index = max(0, old_index - steps) | min(len - 1, old_index + steps)
NewIndex(old_index, length, direction, steps) ==
    IF direction = UP
    THEN Max(0, old_index - steps)
    ELSE Min(length - 1, old_index + steps)

\* Variant: the two entries are swapped instead of one being moved.
MoveEntry_Swap(list, old_index, new_index) ==
    LET j == Max(0, Min(Len(list) - 1, new_index))
    IN  [k \in 1..Len(list) |->
            IF k = old_index + 1 THEN list[j + 1]
            ELSE IF k = j + 1 THEN list[old_index + 1]
            ELSE list[k]]

\* priority_sorted_list.insert(new_index, priority_sorted_list.pop(old_index))
MoveEntry(list, old_index, new_index) ==
    ListInsert(ListPop(list, old_index), new_index, list[old_index + 1])

\* Variant: priority["priority"] = i, numbering from 0.
Renumber_ZeroBased(list) ==
    [k \in 1..Len(list) |-> Entry(list[k].moneyboxId, k - 1)]

\* Variant: the entries keep the priorities they came with.
Renumber_Keep(list) == list

\* for i, priority in enumerate(list): priority["priority"] = i + 1
\* (k is the one-based position, i = k - 1 the enumerate index)
Renumber(list) ==
    [k \in 1..Len(list) |-> Entry(list[k].moneyboxId, (k - 1) + 1)]

\* Variant: old_index starts as 0 and the loop has no else branch, so an
\* absent target moves the first entry of a non-empty list.
BuildPatchData_NoElse(list, id, direction, steps) ==
    LET priority_sorted_list == PrioritySorted(list)
    IN  IF priority_sorted_list = <<>>
        THEN [raised |-> TRUE, data |-> <<>>]
        ELSE LET old_index == IF Found(priority_sorted_list, id)
                              THEN OldIndex(priority_sorted_list, id) ELSE 0
                 new_index == NewIndex(old_index, Len(priority_sorted_list),
                                       direction, steps)
             IN  [raised |-> FALSE,
                  data |-> Renumber(MoveEntry(priority_sorted_list,
                                              old_index, new_index))]

\* _build_patch_data, after the read: the payload for a fetched list, or the
\* typer.BadParameter of the for-else branch.
\* (src/src/api_consumers.py holds the same planner with the keys spelled
\* "moneybox_id" and "priority_list".)
BuildPatchData(list, id, direction, steps) ==
    LET priority_sorted_list == PrioritySorted(list)
    IN  IF ~Found(priority_sorted_list, id)
        THEN [raised |-> TRUE, data |-> <<>>]
        ELSE LET old_index == OldIndex(priority_sorted_list, id)
                 new_index == NewIndex(old_index, Len(priority_sorted_list),
                                       direction, steps)
             IN  [raised |-> FALSE,
                  data |-> Renumber(MoveEntry(priority_sorted_list,
                                              old_index, new_index))]

\* ------------------------------------------------------- the remote service
\* The priority lists the service may hold: distinct identifiers, priorities
\* a contiguous run starting at 1, or at 0 when the list includes the
\* overflow moneybox.
Bijections(S, T) == {f \in [S -> T] : \A a, b \in S : a # b => f[a] # f[b]}

ServerStates ==
    UNION {UNION {{{Entry(i, f[i] - 1 + base) : i \in I} : base \in {0, 1}}
                  : f \in Bijections(I, 1..Cardinality(I))}
           : I \in SUBSET Ids}

\* The orders in which the service returns a list: by identifier, ascending
\* or descending. The priorities of ServerStates are any bijection, so the
\* priorities come in every order; the client relies on none.
Serialisations(S) ==
    {s \in [1..Cardinality(S) -> S] :
        \/ \A a, b \in 1..Cardinality(S) :
              a < b => s[a].moneyboxId < s[b].moneyboxId
        \/ \A a, b \in 1..Cardinality(S) :
              a < b => s[a].moneyboxId > s[b].moneyboxId}

\* Responses to GET /api/prioritylist: the list in some order, an error, or
\* no content when there is nothing to list.
GetResponses(S) ==
    {[status |-> 200, body |-> s] : s \in Serialisations(S)}
        \cup {[status |-> 500, body |-> <<>>]}
        \cup (IF S = {} THEN {[status |-> 204, body |-> <<>>]} ELSE {})

\* Response.__bool__: a response is truthy when its status is below 400.
Truthy(status) == status # 0 /\ status < 400

EntriesOf(list) == {list[k] : k \in 1..Len(list)}

\* ------------------------------------------------- requests and bodies
\* JSON values of a request body, tagged with their type.
JInt(n) == <<"int", n>>
JStr(t) == <<"str", t>>
JBool(b) == <<"bool", b>>
JNull == <<"null">>

\* bool(n) of an int
PyBool(n) == n # 0

\* The empty dict {}; a dict is a function from its keys to JSON values, and
\* d[key] = value is  (key :> value) @@ d.
EmptyDict == <<>>

\* NoData stands for request_data of a consumer constructed without a body.
NoData == <<>>

\* endpoint.replace('{moneybox_id}', str(id)): the text of the endpoint with
\* the value put in the placeholder's place, if the text holds one.
Replace(endpoint, id) ==
    IF endpoint \in Templated THEN <<endpoint, ToString(id)>> ELSE <<endpoint>>

\* partial(request_callback, url=self.url [, json=self.request_data])
Partial(method, url, has_data, data) ==
    [method |-> method, url |-> url,
     kw |-> IF has_data THEN "json" ELSE "none", body |-> data]

\* (a variant for checking: every direction text is taken as it is)
ValidDirection_Lenient(direction) == TRUE

\* try: MoveDirection(direction) except: raise typer.BadParameter
ValidDirection(direction) == direction \in MoveDirection

\* (a variant for checking: the first statement is left out)
ClearConflict_Never(savings_target, clear_savings_target) == FALSE

\* PatchMoneyboxApiConsumer.__init__: the usage error of the first statement
ClearConflict(savings_target, clear_savings_target) ==
    clear_savings_target /\ savings_target >= 0

\* (a variant for checking: the savings amount is written unconditionally)
PatchMoneyboxData_Dense(name, savings_amount, savings_target, clear_savings_target) ==
    LET d1 == IF name # "" THEN ("name" :> JStr(name)) @@ EmptyDict
              ELSE EmptyDict
        d2 == ("savingsAmount" :> JInt(savings_amount)) @@ d1
        d3 == IF savings_target >= 0
              THEN ("savingsTarget" :> JInt(savings_target)) @@ d2 ELSE d2
        d4 == IF clear_savings_target
              THEN ("savingsTarget" :> JNull) @@ d3 ELSE d3
    IN  d4

\* PatchMoneyboxApiConsumer.__init__: patch_data
PatchMoneyboxData(name, savings_amount, savings_target, clear_savings_target) ==
    LET d1 == IF name # "" THEN ("name" :> JStr(name)) @@ EmptyDict
              ELSE EmptyDict
        d2 == IF savings_amount >= 0
              THEN ("savingsAmount" :> JInt(savings_amount)) @@ d1 ELSE d1
        d3 == IF savings_target >= 0
              THEN ("savingsTarget" :> JInt(savings_target)) @@ d2 ELSE d2
        d4 == IF clear_savings_target
              THEN ("savingsTarget" :> JNull) @@ d3 ELSE d3
    IN  d4

\* update_appsettings of main.py: the short mode names are spelled out
ModeName(mode_arg) ==
    IF mode_arg = "add" THEN "add_to_automated_savings_amount"
    ELSE IF mode_arg = "fill" THEN "fill_up_limited_moneyboxes"
    ELSE mode_arg

\* PatchAppSettingsApiConsumer.__init__ of savings_manager_cli: patch_data
PatchAppSettingsData(send_reports_via_email, user_email_address, is_automated_saving_active, savings_amount, overflow_mode) ==
    LET d1 == IF send_reports_via_email >= 0
              THEN ("sendReportsViaEmail" :> JBool(PyBool(send_reports_via_email)))
                       @@ EmptyDict
              ELSE EmptyDict
        d2 == IF user_email_address # ""
              THEN ("userEmailAddress" :> JStr(user_email_address)) @@ d1 ELSE d1
        d3 == IF is_automated_saving_active >= 0
              THEN ("isAutomatedSavingActive" :>
                        JBool(PyBool(is_automated_saving_active))) @@ d2
              ELSE d2
        d4 == IF savings_amount >= 0
              THEN ("savingsAmount" :> JInt(savings_amount)) @@ d3 ELSE d3
        d5 == IF overflow_mode # ""
              THEN ("overflowMoneyboxAutomatedSavingsMode" :> JStr(overflow_mode)) @@ d4
              ELSE d4
    IN  d5

\* PatchAppSettingsApiConsumer.__init__ of src: patch_data
SrcPatchAppSettingsData(send_reports_via_email, user_email_address, is_automated_saving_active, savings_amount, overflow_mode) ==
    LET d1 == IF send_reports_via_email >= 0
              THEN ("savings_amount" :> JInt(savings_amount)) @@ EmptyDict
              ELSE EmptyDict
        d2 == IF user_email_address # ""
              THEN ("user_email_address" :> JStr(user_email_address)) @@ d1 ELSE d1
        d3 == IF is_automated_saving_active >= 0
              THEN ("is_automated_saving_active" :>
                        JInt(is_automated_saving_active)) @@ d2
              ELSE d2
        d4 == IF savings_amount >= 0
              THEN ("savings_amount" :> JInt(savings_amount)) @@ d3 ELSE d3
        d5 == IF overflow_mode # ""
              THEN ("overflow_moneybox_automated_savings_mode" :> JStr(overflow_mode)) @@ d4
              ELSE d4
    IN  d5

\* ---------------------------------------------- the other commands of main.py
\* Identifiers the caller names in the commands that do not reorder.
OpIds == {1, 2}
\* moneybox_id of `list` is optional: <<>> is None, <<i>> is the identifier i
OptionalIds == {<<>>} \cup {<<i>> : i \in OpIds}

\* The commands whose consumer is constructed from its arguments alone.
SimpleCommands ==
    {"list", "add", "sub", "transfer", "create", "delete",
     "get-prioritylist", "get-appsettings", "send-testemail"}
NoIdCommands == {"create", "get-prioritylist", "get-appsettings", "send-testemail"}

\* What each simple command of main.py constructs (savings_manager_cli): the
\* consumer class, its endpoint and method, and the body it is given.
SimpleOp(cmd, opt) ==
    LET id == IF opt = <<>> THEN 0 ELSE opt[1]
        Op(c, e, m, h, d) ==
            [consumer |-> c, endpoint |-> e, method |-> m, has_data |-> h, data |-> d]
        post_data == ("amount" :> JInt(100)) @@ ("description" :> JStr(""))
    IN  CASE cmd = "list" /\ opt = <<>> ->
               Op("GetMoneyboxesApiConsumer", LIST_ALL_MONEYBOXES, "GET", FALSE, NoData)
          [] cmd = "list" /\ opt # <<>> ->
               Op("GetMoneyboxApiConsumer", LIST_SPECIFIC_MONEYBOX, "GET", FALSE, NoData)
          [] cmd = "add" ->
               Op("PostMoneyboxBalanceAddApiConsumer", ADD_AMOUNT_TO_MONEYBOX,
                  "POST", TRUE, post_data)
          [] cmd = "sub" ->
               Op("PostMoneyboxBalanceSubApiConsumer", SUB_AMOUNT_TO_MONEYBOX,
                  "POST", TRUE, post_data)
          [] cmd = "transfer" ->
               Op("PostMoneyboxBalanceTransferApiConsumer", TRANSFER_AMOUNT,
                  "POST", TRUE, ("toMoneyboxId" :> JInt(3 - id)) @@ post_data)
          [] cmd = "create" ->
               Op("PostMoneyboxApiConsumer", CREATE_MONEYBOX, "POST", TRUE,
                  ("name" :> JStr("n")) @@ ("savingsAmount" :> JInt(0))
                      @@ ("savingsTarget" :> JNull))
          [] cmd = "delete" ->
               Op("DeleteMoneyboxApiConsumer", DELETE_MONEYBOX, "DELETE", FALSE, NoData)
          [] cmd = "logs" ->
               Op("GetMoneyboxTransactionsApiConsumer", SHOW_MONEYBOX_LOGS,
                  "GET", FALSE, NoData)
          [] cmd = "get-prioritylist" ->
               Op("GetPriorityListApiConsumer", GET_PRIORITYLIST, "GET", FALSE, NoData)
          [] cmd = "get-appsettings" ->
               Op("GetAppSettingsApiConsumer", GET_APPSETTINGS, "GET", FALSE, NoData)
          [] cmd = "send-testemail" ->
               Op("PatchSendTestEmailApiConsumer", SEND_TESTEMAIL, "PATCH", FALSE, NoData)

\* ------------------------------------------------------ transaction logs
\* An entry of a transaction log, by its time of creation.
Log(t) == [createdAt |-> t]

\* The transaction logs a response may carry: up to MaxLogs entries created
\* at pairwise distinct times, in any order.
LogBodies ==
    UNION {{[k \in 1..L |-> Log(p[k])] : p \in Permutations(1..L)} : L \in 0..MaxLogs}

\* n of `logs` is optional: <<>> is None, <<k>> is the number k
OptionalCounts == {<<>>} \cup {<<k>> : k \in 0..(MaxLogs - 1)}

\* content["transactionLogs"].sort(key=lambda item: item["createdAt"])
CreatedAtSorted(logs) ==
    [k \in 1..Len(logs) |->
        logs[CHOOSE i \in 1..Len(logs) :
            Cardinality({j \in 1..Len(logs) :
                \/ logs[j].createdAt < logs[i].createdAt
                \/ logs[j].createdAt = logs[i].createdAt /\ j < i}) = k - 1]]

\* list[-n:]: the slice from index -n, which counts from the end when it is
\* negative and is the start of the list when n is 0
SliceFromMinus(list, n) ==
    LET start == IF n > 0 THEN Max(0, Len(list) - n) ELSE Min(Len(list), 0 - n)
    IN  SubSeq(list, start + 1, Len(list))

\* GetMoneyboxTransactionsApiConsumer.__str__: the entries rendered
RenderLogs(logs, n) ==
    LET sorted == CreatedAtSorted(logs)
    IN  IF n = <<>> THEN sorted ELSE SliceFromMinus(sorted, n[1])

\* The same for src/api_consumers.py: the classes differ in the spelling of
\* the keys of the transfer body.
SrcSimpleOp(cmd, opt) ==
    LET id == IF opt = <<>> THEN 0 ELSE opt[1]
    IN  [SimpleOp(cmd, opt) EXCEPT !.data =
            IF cmd = "transfer"
            THEN ("to_moneybox_id" :> JInt(3 - id)) @@ ("amount" :> JInt(100))
                     @@ ("description" :> JStr(""))
            ELSE @]

\* ApiConsumerFactory.__init__ of src: self.url = f"{BASE_URL}:{PORT}{self.endpoint}",
\* the text of the endpoint as it is; no class of src puts the identifier in.
SrcUrl(endpoint, id) == <<endpoint>>

\* the url of the request, per api_consumers module
Url(v, endpoint, id) ==
    IF v = CLI THEN Replace(endpoint, id) ELSE SrcUrl(endpoint, id)

\* <Consumer>.__str__: what print(consumer) does with a response of the given
\* status; `empty` tells that the "prioritylist" of the body has no entry.
StrOutcome(cons, status, empty) ==
    LET Out(e, o) == [error |-> e, stdout |-> o]
    IN  IF cons = "PatchSendTestEmailApiConsumer"
        THEN Out("none", IF status = 204 THEN "Ok. Test email sent"
                                         ELSE "Failed sending test email.")
        ELSE IF ~Truthy(status) THEN Out("exit_with_error", "none")
        ELSE IF cons \in {"GetMoneyboxesApiConsumer",
                          "GetMoneyboxTransactionsApiConsumer"}
        THEN Out("none", IF status = 204 THEN "No data" ELSE "table")
        ELSE IF cons = "PostMoneyboxBalanceTransferApiConsumer"
        THEN Out("none", "Transferred")
        ELSE IF cons = "DeleteMoneyboxApiConsumer"
        THEN Out("none", "Deleted moneybox")
        ELSE IF status = 204 THEN Out("JSONDecodeError", "none")
        ELSE IF cons \in {"GetPriorityListApiConsumer",
                          "UpdatePriorityListApiConsumer"} /\ empty
        THEN Out("IndexError", "none")
        ELSE Out("none", "table")

\* sys.exit(1) of exit_with_error, the exit code 2 typer gives a
\* BadParameter, the exit code 1 of an uncaught exception, 0 otherwise
ExitCode(e) ==
    IF e = "none" THEN 0
    ELSE IF e \in {"BadParameter: unknown move direction",
                   "BadParameter: does not exist or can't be moved",
                   "BadParameter: set and clear"} THEN 2
    ELSE 1

\* ------------------------------------------------------------------ Init
\* No process is running; the service holds some priority list.
Idle ==
    /\ pc = "idle"
    /\ command = "none"
    /\ args = <<>>
    /\ variant = CLI
    /\ consumer = "none"
    /\ moneybox_id = 0
    /\ move_direction = "unset"
    /\ move_steps = 0
    /\ prioritylist = <<>>
    /\ request_data = NoData
    /\ consumer_request = <<>>
    /\ mode = "none"
    /\ requests = <<>>
    /\ response = 0
    /\ error = "none"
    /\ stdout = "none"
    /\ stale = FALSE
    /\ read_response = 0
    /\ content = <<>>
    /\ rows = <<>>

Init ==
    /\ server \in ServerStates
    /\ Idle

\* --------------------------------------------------------------- actions
\* main.py update_pioritylist up to the end of the consumer's construction:
\* MoveDirection(direction), then UpdatePriorityListApiConsumer.__init__,
\* whose super().__init__ calls request_data(), i.e. _build_patch_data, which
\* reads the list with GetPriorityListApiConsumer and plans the move.
update_pioritylist(id, direction, n) ==
    /\ pc = "idle"
    /\ command' = "update-prioritylist"
    /\ args' = [moneybox_id |-> id, direction |-> direction, n |-> n]
    /\ variant' = CLI
    /\ mode' = "none"
    /\ response' = 0
    /\ stdout' = "none"
    /\ UNCHANGED <<server, stale, content, rows>>
    /\ IF ~ValidDirection(direction)
       THEN /\ pc' = "done"
            /\ error' = "BadParameter: unknown move direction"
            /\ consumer' = "none"
            /\ moneybox_id' = 0
            /\ move_direction' = "unset"
            /\ move_steps' = 0
            /\ prioritylist' = <<>>
            /\ request_data' = NoData
            /\ consumer_request' = <<>>
            /\ requests' = <<>>
            /\ read_response' = 0
       ELSE /\ consumer' = "UpdatePriorityListApiConsumer"
            /\ moneybox_id' = id
            /\ move_direction' = direction
            /\ move_steps' = n
            /\ requests' = <<Partial("GET", Replace(GET_PRIORITYLIST, id),
                                     FALSE, NoData)>>
            /\ \E get \in GetResponses(server) :
                 /\ read_response' = get.status
                 /\ IF get.status # 200
                    THEN /\ pc' = "done"
                         /\ error' = IF get.status = 204 THEN "JSONDecodeError"
                                                         ELSE "KeyError"
                         /\ prioritylist' = <<>>
                         /\ request_data' = NoData
                         /\ consumer_request' = <<>>
                    ELSE LET plan == BuildPatchData(get.body, id, direction, n)
                         IN  /\ prioritylist' = get.body
                             /\ request_data' = plan.data
                             /\ IF plan.raised
                                THEN /\ pc' = "done"
                                     /\ error' = "BadParameter: does not exist or can't be moved"
                                     /\ consumer_request' = <<>>
                                ELSE /\ pc' = "built"
                                     /\ error' = "none"
                                     /\ consumer_request' =
                                            Partial("PATCH",
                                                    Replace(UPDATE_PRIORITYLIST, id),
                                                    TRUE, plan.data)

\* main.py update_moneybox up to the end of PatchMoneyboxApiConsumer.__init__
update_moneybox(id, name, savings_amount, savings_target, clear_savings_target) ==
    /\ pc = "idle"
    /\ command' = "update"
    /\ args' = [moneybox_id |-> id, name |-> name,
                savings_amount |-> savings_amount,
                savings_target |-> savings_target,
                clear_savings_target |-> clear_savings_target]
    /\ variant' = CLI
    /\ IF ClearConflict(savings_target, clear_savings_target)
       THEN /\ pc' = "done"
            /\ error' = "BadParameter: set and clear"
            /\ consumer' = "none"
            /\ request_data' = NoData
            /\ consumer_request' = <<>>
       ELSE LET patch_data == PatchMoneyboxData(name, savings_amount,
                                                savings_target,
                                                clear_savings_target)
            IN  /\ pc' = "built"
                /\ error' = "none"
                /\ consumer' = "PatchMoneyboxApiConsumer"
                /\ request_data' = patch_data
                /\ consumer_request' =
                       Partial("PATCH", Replace(UPDATE_MONEYBOX, id), TRUE, patch_data)
    /\ UNCHANGED <<server, moneybox_id, move_direction, move_steps, prioritylist,
                   mode, requests, response, stdout, stale, read_response, content, rows>>

\* main.py update_appsettings up to the end of
\* PatchAppSettingsApiConsumer.__init__, with either api_consumers module
update_appsettings(v, send_reports_via_email, user_email_address, is_automated_saving_active, savings_amount, mode_arg) ==
    /\ pc = "idle"
    /\ command' = "update-appsettings"
    /\ args' = [send_reports_via_email |-> send_reports_via_email,
                user_email_address |-> user_email_address,
                is_automated_saving_active |-> is_automated_saving_active,
                savings_amount |-> savings_amount,
                overflow_moneybox_automated_savings_mode |-> mode_arg]
    /\ variant' = v
    /\ LET patch_data ==
               IF v = CLI
               THEN PatchAppSettingsData(send_reports_via_email,
                        user_email_address, is_automated_saving_active,
                        savings_amount, ModeName(mode_arg))
               ELSE SrcPatchAppSettingsData(send_reports_via_email,
                        user_email_address, is_automated_saving_active,
                        savings_amount, ModeName(mode_arg))
       IN  /\ request_data' = patch_data
           /\ consumer_request' =
                  [Partial("PATCH", Replace(UPDATE_APPSETTINGS, 0), TRUE, patch_data)
                      EXCEPT !.kw = IF v = CLI THEN "json" ELSE "data"]
    /\ pc' = "built"
    /\ error' = "none"
    /\ consumer' = "PatchAppSettingsApiConsumer"
    /\ UNCHANGED <<server, moneybox_id, move_direction, move_steps, prioritylist,
                   mode, requests, response, stdout, stale, read_response, content, rows>>

\* main.py show_logs up to the end of
\* GetMoneyboxTransactionsApiConsumer.__init__ (src/api_consumers.py has the
\* same class with the keys spelled "transaction_logs" and "created_at")
show_logs(id, n) ==
    /\ pc = "idle"
    /\ LET op == SimpleOp("logs", <<id>>)
       IN  /\ consumer' = op.consumer
           /\ request_data' = op.data
           /\ consumer_request' =
                  Partial(op.method, Url(CLI, op.endpoint, id), op.has_data, op.data)
    /\ command' = "logs"
    /\ args' = [moneybox_id |-> <<id>>, n |-> n]
    /\ variant' = CLI
    /\ pc' = "built"
    /\ error' = "none"
    /\ UNCHANGED <<server, moneybox_id, move_direction, move_steps, prioritylist,
                   mode, requests, response, stdout, stale, read_response,
                   content, rows>>

\* The other commands of main.py up to the end of their consumer's __init__,
\* with either api_consumers module. PostMoneyboxApiConsumer of src requires
\* a priority that create_moneybox of main.py does not pass: TypeError.
cli_command(v, cmd, opt) ==
    /\ pc = "idle"
    /\ cmd \in SimpleCommands
    /\ cmd \in NoIdCommands => opt = <<>>
    /\ cmd \notin NoIdCommands \cup {"list"} => opt # <<>>
    /\ IF v = SRC /\ cmd = "create"
       THEN /\ pc' = "done"
            /\ error' = "TypeError"
            /\ consumer' = "none"
            /\ request_data' = NoData
            /\ consumer_request' = <<>>
       ELSE LET op == IF v = CLI THEN SimpleOp(cmd, opt) ELSE SrcSimpleOp(cmd, opt)
                id == IF opt = <<>> THEN 0 ELSE opt[1]
            IN  /\ pc' = "built"
                /\ error' = "none"
                /\ consumer' = op.consumer
                /\ request_data' = op.data
                /\ consumer_request' =
                       [Partial(op.method, Url(v, op.endpoint, id), op.has_data, op.data)
                           EXCEPT !.kw = IF ~op.has_data THEN "none"
                                         ELSE IF v = CLI THEN "json" ELSE "data"]
    /\ command' = cmd
    /\ args' = [moneybox_id |-> opt]
    /\ variant' = v
    /\ UNCHANGED <<server, moneybox_id, move_direction, move_steps, prioritylist,
                   mode, requests, response, stdout, stale, read_response, content, rows>>

\* What the service answers to consumer_request and what it holds after it:
\* it stores an accepted reorder payload as it is; the other operations do
\* not touch the priority list of this model.
Served(status) ==
    IF consumer = "UpdatePriorityListApiConsumer" /\ Truthy(status)
    THEN EntriesOf(request_data)
    ELSE server

\* (a variant for checking: a reorder reads the list again before its write)
run_Reread ==
    /\ pc = "built"
    /\ requests' =
           IF consumer = "UpdatePriorityListApiConsumer"
           THEN Append(Append(requests, Partial("GET", <<GET_PRIORITYLIST>>,
                                                FALSE, NoData)),
                       consumer_request)
           ELSE Append(requests, consumer_request)
    /\ \E status \in {200, 204, 500} :
         /\ response' = status
         /\ server' = Served(status)
    /\ pc' = "ran"
    /\ mode' = "run"
    /\ prioritylist' = <<>>
    /\ UNCHANGED <<command, args, variant, consumer, moneybox_id, move_direction,
                   move_steps, request_data, consumer_request, error, stdout,
                   stale, read_response, content, rows>>

\* (a variant for checking: a failed request is sent a second time)
run_Retry ==
    /\ pc = "built"
    /\ \E status \in {200, 204, 500} :
         /\ response' = status
         /\ server' = Served(status)
         /\ requests' = IF Truthy(status)
                        THEN Append(requests, consumer_request)
                        ELSE Append(Append(requests, consumer_request),
                                    consumer_request)
    /\ pc' = "ran"
    /\ mode' = "run"
    /\ prioritylist' = <<>>
    /\ UNCHANGED <<command, args, variant, consumer, moneybox_id, move_direction,
                   move_steps, request_data, consumer_request, error, stdout,
                   stale, read_response, content, rows>>

\* ApiConsumerFactory.__enter__ / run: self.response = self.consumer_request()
\* (the list read at construction is a local of _build_patch_data and is gone)
run ==
    /\ pc = "built"
    /\ requests' = Append(requests, consumer_request)
    /\ \E status \in {200, 204, 500} :
         /\ response' = status
         /\ server' = Served(status)
    /\ pc' = "ran"
    /\ mode' = "run"
    /\ prioritylist' = <<>>
    /\ UNCHANGED <<command, args, variant, consumer, moneybox_id, move_direction,
                   move_steps, request_data, consumer_request, error, stdout,
                   stale, read_response, content, rows>>

\* (a variant for checking: the deferred mode sends the request without body)
async_run_NoBody ==
    /\ pc = "built"
    /\ requests' = Append(requests, [consumer_request EXCEPT !.kw = "none",
                                                              !.body = NoData])
    /\ \E status \in {200, 204, 500} :
         /\ response' = status
         /\ server' = Served(status)
    /\ pc' = "ran"
    /\ mode' = "async_run"
    /\ prioritylist' = <<>>
    /\ UNCHANGED <<command, args, variant, consumer, moneybox_id, move_direction,
                   move_steps, request_data, consumer_request, error, stdout,
                   stale, read_response, content, rows>>

\* ApiConsumerFactory.__aenter__ / async_run:
\* self.response = await loop.run_in_executor(None, self.consumer_request)
async_run ==
    /\ pc = "built"
    /\ requests' = Append(requests, consumer_request)
    /\ \E status \in {200, 204, 500} :
         /\ response' = status
         /\ server' = Served(status)
    /\ pc' = "ran"
    /\ mode' = "async_run"
    /\ prioritylist' = <<>>
    /\ UNCHANGED <<command, args, variant, consumer, moneybox_id, move_direction,
                   move_steps, request_data, consumer_request, error, stdout,
                   stale, read_response, content, rows>>

\* A caller of the library runs a reorder consumer it has already run: run()
\* (or async_run()) calls the same partial again. main.py never does.
run_again ==
    /\ pc = "ran"
    /\ consumer = "UpdatePriorityListApiConsumer"
    /\ requests' = Append(requests, consumer_request)
    /\ \E status \in {200, 204, 500} :
         /\ response' = status
         /\ server' = Served(status)
    /\ pc' = "reran"
    /\ UNCHANGED <<command, args, variant, consumer, moneybox_id, move_direction,
                   move_steps, prioritylist, request_data, consumer_request,
                   mode, error, stdout, stale, read_response, content, rows>>

\* print(consumer): <Consumer>.__str__. The body of a transaction log
\* response is drawn here, where response.json() first looks at it.
print_consumer ==
    /\ pc = "ran"
    /\ pc' = "done"
    /\ IF consumer = "GetMoneyboxTransactionsApiConsumer" /\ response = 200
       THEN \E logs \in LogBodies :
              LET rendered == RenderLogs(logs, args.n)
              IN  /\ content' = logs
                  /\ rows' = rendered
                  /\ error' = IF rendered = <<>> THEN "IndexError" ELSE "none"
                  /\ stdout' = IF rendered = <<>> THEN "none" ELSE "table"
       ELSE LET out == StrOutcome(consumer, response, server = {})
            IN  /\ error' = out.error
                /\ stdout' = out.stdout
                /\ content' = <<>>
                /\ rows' = <<>>
    /\ UNCHANGED <<server, command, args, variant, consumer, moneybox_id,
                   move_direction, move_steps, prioritylist, request_data,
                   consumer_request, mode, requests, response, stale,
                   read_response>>

\* The process ends (sys.exit, an uncaught exception, or the return of the
\* command): nothing of it survives, only the service keeps its list.
exit ==
    /\ pc \in {"done", "reran"}
    /\ pc' = "idle"
    /\ command' = "none"
    /\ args' = <<>>
    /\ variant' = CLI
    /\ consumer' = "none"
    /\ moneybox_id' = 0
    /\ move_direction' = "unset"
    /\ move_steps' = 0
    /\ prioritylist' = <<>>
    /\ request_data' = NoData
    /\ consumer_request' = <<>>
    /\ mode' = "none"
    /\ requests' = <<>>
    /\ response' = 0
    /\ error' = "none"
    /\ stdout' = "none"
    /\ stale' = FALSE
    /\ read_response' = 0
    /\ content' = <<>>
    /\ rows' = <<>>
    /\ UNCHANGED server

\* Another client of the service deletes one moneybox between the read and
\* the write of a reorder; the service closes the gap in the priorities.
Without(S, id) ==
    {Entry(e.moneyboxId,
           IF \E d \in S : d.moneyboxId = id /\ d.priority < e.priority
           THEN e.priority - 1 ELSE e.priority)
        : e \in {x \in S : x.moneyboxId # id}}

other_party_delete(id) ==
    /\ pc = "built"
    /\ consumer = "UpdatePriorityListApiConsumer"
    /\ server = EntriesOf(prioritylist)
    /\ \E e \in server : e.moneyboxId = id
    /\ server' = Without(server, id)
    /\ stale' = TRUE
    /\ UNCHANGED <<pc, command, args, variant, consumer, moneybox_id,
                   move_direction, move_steps, prioritylist, request_data,
                   consumer_request, mode, requests, response, error, stdout,
                   read_response, content, rows>>

Next ==
    \/ \E id \in CallerIds, direction \in DirectionArgs, n \in StepCounts :
         update_pioritylist(id, direction, n)
    \/ \E id \in OpIds, name \in {"", "n"}, savings_amount \in {-1, 0},
          savings_target \in {-1, 0}, clear_savings_target \in BOOLEAN :
         update_moneybox(id, name, savings_amount, savings_target,
                         clear_savings_target)
    \/ \E v \in {CLI, SRC}, send \in {-1, 1}, email \in {"", "a@b.c"},
          active \in {-1, 0}, amount \in {-1, 0}, mode_arg \in {"", "add"} :
         update_appsettings(v, send, email, active, amount, mode_arg)
    \/ \E v \in {CLI, SRC}, cmd \in SimpleCommands, opt \in OptionalIds :
         cli_command(v, cmd, opt)
    \/ \E id \in OpIds, n \in OptionalCounts : show_logs(id, n)
    \/ run
    \/ async_run
    \/ run_again
    \/ print_consumer
    \/ exit
    \/ \E id \in Ids : other_party_delete(id)

Spec == Init /\ [][Next]_vars

\* ================================================================ claims
\* Vocabulary of the properties below.
IdsOf(list) == [k \in 1..Len(list) |-> list[k].moneyboxId]

\* zero-based position of `id` in a list that holds it once
PosOf(list, id) == (CHOOSE k \in 1..Len(list) : list[k].moneyboxId = id) - 1

CountOf(list, id) == Cardinality({k \in 1..Len(list) : list[k].moneyboxId = id})

\* the fetched list in the planner's working order
SortedFetched == PrioritySorted(prioritylist)

\* the planner has produced a payload for the command of this process
Planned == consumer = "UpdatePriorityListApiConsumer" /\ pc = "built"

\* the read of this reorder returned a list and is the last request so far
ReadDone ==
    /\ command = "update-prioritylist"
    /\ pc # "idle"
    /\ Len(requests) = 1
    /\ error \notin {"KeyError", "JSONDecodeError"}

NotFoundError == "BadParameter: does not exist or can't be moved"

NoWrite == \A k \in 1..Len(requests) : requests[k].method # "PATCH"

\* ---------------------------------------------------------------- C1
\* C1: for a fetched list of N >= 1 entries holding the target, either
\* direction and steps >= 0, the payload has exactly N entries, the entry at
\* one-based position i carries priority i, so the priorities are exactly
\* 1..N without duplicate or gap.
C1_PrioritiesAreOneToN ==
    (Planned /\ move_steps >= 0) =>
        /\ Len(prioritylist) >= 1
        /\ Len(request_data) = Len(prioritylist)
        /\ \A k \in 1..Len(request_data) : request_data[k].priority = k
        /\ {request_data[k].priority : k \in 1..Len(request_data)}
               = 1..Len(prioritylist)

C1_Witness ==
    /\ Planned
    /\ move_steps > 0
    /\ Len(prioritylist) >= 3
    /\ \E k \in 1..Len(prioritylist) : prioritylist[k].priority = 0
    /\ IdsOf(request_data) # IdsOf(SortedFetched)

\* ---------------------------------------------------------------- C2
\* C2: the payload holds every moneybox identifier of the list that was read
\* exactly as often as that list does, for any direction and step count.
C2_SameIdentifiers ==
    Planned =>
        \A id \in CallerIds :
            CountOf(request_data, id) = CountOf(prioritylist, id)

C2_Witness ==
    /\ Planned
    /\ Len(prioritylist) >= 3
    /\ move_steps < 0
    /\ IdsOf(request_data) # IdsOf(SortedFetched)

\* ---------------------------------------------------------------- C3
\* C3: with the target at zero-based index i of the sorted fetched list of
\* length N and steps >= 0, the target sits in the payload at index
\* max(0, i - steps) when moving up and min(N-1, i + steps) when moving down.
C3_ClampedTargetIndex ==
    (Planned /\ move_steps >= 0) =>
        LET i == PosOf(SortedFetched, moneybox_id)
            N == Len(prioritylist)
        IN  PosOf(request_data, moneybox_id) =
                IF move_direction = UP
                THEN (IF i - move_steps < 0 THEN 0 ELSE i - move_steps)
                ELSE (IF i + move_steps > N - 1 THEN N - 1 ELSE i + move_steps)

C3_Witness ==
    /\ Planned
    /\ move_direction = UP
    /\ PosOf(SortedFetched, moneybox_id) = 1
    /\ move_steps = 3
    /\ Len(prioritylist) >= 3
    /\ PosOf(request_data, moneybox_id) = 0

\* ---------------------------------------------------------------- C4
\* C4: the reorder is a list move: the other entries keep their relative
\* order; those strictly between the target's old and new position shift by
\* one position toward the old position, those outside the range of the two
\* positions keep their position.
C4_ListMove ==
    Planned =>
        LET old == PosOf(SortedFetched, moneybox_id)
            new == PosOf(request_data, moneybox_id)
            lo == Min(old, new)
            hi == Max(old, new)
            Others(list) == SelectSeq(IdsOf(list), LAMBDA x : x # moneybox_id)
        IN  /\ Others(request_data) = Others(SortedFetched)
            /\ \A k \in 0..(Len(prioritylist) - 1) :
                 LET id == SortedFetched[k + 1].moneyboxId
                 IN  /\ (k < lo \/ k > hi) => PosOf(request_data, id) = k
                     /\ (lo < k /\ k < hi) =>
                            PosOf(request_data, id) =
                                IF old < new THEN k - 1 ELSE k + 1

C4_Witness ==
    /\ Planned
    /\ Len(prioritylist) >= 3
    /\ PosOf(SortedFetched, moneybox_id) = 0
    /\ PosOf(request_data, moneybox_id) = 2

\* ---------------------------------------------------------------- C5
\* C5: when the target is not in the fetched list (an empty list included),
\* the process ends with the BadParameter of the planner, it has issued
\* exactly one request, the read, and never a PATCH.
C5_AbsentTargetNoWrite ==
    (ReadDone /\ ~Found(prioritylist, moneybox_id)) =>
        /\ pc = "done"
        /\ error = NotFoundError
        /\ Len(requests) = 1
        /\ requests[1].method = "GET"
        /\ NoWrite

C5_Witness ==
    /\ ReadDone
    /\ ~Found(prioritylist, moneybox_id)
    /\ Len(prioritylist) >= 2
    /\ error = NotFoundError

C5_WitnessEmpty ==
    /\ ReadDone
    /\ prioritylist = <<>>
    /\ error = NotFoundError

\* ---------------------------------------------------------------- C6
\* C6: whenever the fetched list holds an entry with priority 0 (the overflow
\* moneybox), that entry still has priority 0 in the payload.
C6_OverflowKeepsPriorityZero ==
    Planned =>
        \A k \in 1..Len(prioritylist) :
            prioritylist[k].priority = 0 =>
                \E j \in 1..Len(request_data) :
                    /\ request_data[j].moneyboxId = prioritylist[k].moneyboxId
                    /\ request_data[j].priority = 0

\* ---------------------------------------------------------------- C7
\* C7: when the caller names the entry holding priority 0 and that entry is
\* in the fetched list, the process ends with the planner's BadParameter and
\* issues no write.
C7_OverflowTargetRejected ==
    (ReadDone /\ \E k \in 1..Len(prioritylist) :
                    prioritylist[k] = Entry(moneybox_id, 0)) =>
        /\ error = NotFoundError
        /\ NoWrite

\* ---------------------------------------------------------------- C8
\* C8: for a fetched list whose priorities are 1..N, moving the entry at
\* position 0 up, or the entry at the last position down, by steps >= 0
\* yields a payload equal, identifiers and priorities, to the sorted
\* fetched list.
C8_BoundaryMoveIsNoOp ==
    LET N == Len(prioritylist)
        i == PosOf(SortedFetched, moneybox_id)
    IN  (/\ Planned
         /\ move_steps >= 0
         /\ {prioritylist[k].priority : k \in 1..N} = 1..N
         /\ \/ move_direction = UP /\ i = 0
            \/ move_direction = DOWN /\ i = N - 1)
        => request_data = SortedFetched

C8_Witness ==
    /\ Planned
    /\ move_steps >= 2
    /\ Len(prioritylist) >= 3
    /\ {prioritylist[k].priority : k \in 1..Len(prioritylist)}
           = 1..Len(prioritylist)
    /\ prioritylist # SortedFetched
    /\ move_direction = UP
    /\ PosOf(SortedFetched, moneybox_id) = 0
    /\ request_data = SortedFetched

\* ---------------------------------------------------------------- C9
\* C9: moving a present target by 0 steps, up or down, leaves the order of
\* identifiers as in the sorted fetched list.
C9_ZeroStepsIsNoOp ==
    (Planned /\ move_steps = 0) => IdsOf(request_data) = IdsOf(SortedFetched)

C9_Witness ==
    /\ Planned
    /\ move_steps = 0
    /\ Len(prioritylist) >= 3
    /\ prioritylist # SortedFetched
    /\ PosOf(SortedFetched, moneybox_id) = 1
    /\ IdsOf(request_data) = IdsOf(SortedFetched)

\* ---------------------------------------------------------------- C10
\* C10: when the move by s >= 0 steps is not clamped, planning on the payload
\* as the current list with the same target, s steps and the opposite
\* direction gives back the identifier order of the sorted fetched list.
Opposite(direction) == IF direction = UP THEN DOWN ELSE UP

Unclamped ==
    LET i == PosOf(SortedFetched, moneybox_id)
    IN  IF move_direction = UP
        THEN 0 <= i - move_steps
        ELSE i + move_steps <= Len(prioritylist) - 1

C10_RoundTrip ==
    (Planned /\ move_steps >= 0 /\ Unclamped) =>
        LET back == BuildPatchData(request_data, moneybox_id,
                                   Opposite(move_direction), move_steps)
        IN  /\ ~back.raised
            /\ IdsOf(back.data) = IdsOf(SortedFetched)

C10_Witness ==
    /\ Planned
    /\ move_steps = 2
    /\ Unclamped
    /\ IdsOf(request_data) # IdsOf(SortedFetched)
    /\ IdsOf(BuildPatchData(request_data, moneybox_id,
                            Opposite(move_direction), move_steps).data)
           = IdsOf(SortedFetched)

\* ---------------------------------------------------------------- C11
\* C11: for every integer step count, negative ones included, the index at
\* which the target is reinserted lies in 0..N-1 and the target ends at its
\* old index plus the signed offset (-steps when moving up, +steps when
\* moving down) clamped into 0..N-1.
C11_SignedStepsClamped ==
    Planned =>
        LET i == PosOf(SortedFetched, moneybox_id)
            N == Len(prioritylist)
            offset == IF move_direction = UP THEN 0 - move_steps ELSE move_steps
            clamped == Max(0, Min(N - 1, i + offset))
        IN  /\ NewIndex(i, N, move_direction, move_steps) \in 0..(N - 1)
            /\ PosOf(request_data, moneybox_id) = clamped

\* ---------------------------------------------------------------- C12
\* C12: the body procedure is invoked, and the priority list read, only when
\* the operation is executed: a reorder consumer that has been constructed
\* and not yet run has issued no request.
C12_NoRequestBeforeRun ==
    Planned => requests = <<>>

\* ---- vocabulary of the claims about the dispatcher and the request bodies
Reorder == command = "update-prioritylist"
\* the process has sent consumer_request and holds a response
Ran == pc \in {"ran", "done"} /\ response # 0
\* the process ended before its consumer was run
Rejected == pc = "done" /\ response = 0
ReadRequest == Partial("GET", <<GET_PRIORITYLIST>>, FALSE, NoData)
LastRequest == requests[Len(requests)]

\* C13 (as stated): each command invocation performs exactly one network
\* round trip, except reorder which performs exactly two.
C13_OneRoundTripEach ==
    pc = "done" => Len(requests) = IF Reorder THEN 2 ELSE 1

\* C13 (amended): an invocation whose consumer is run performs exactly one
\* round trip, the consumer's request, sent once whatever the response; a
\* reorder performs exactly two, GET /api/prioritylist and then
\* PATCH /api/prioritylist with the payload planned from that read. An
\* invocation rejected as a usage error performs none, except a reorder
\* whose read failed or whose target is absent from the list read, which
\* performs the read alone.
C13_RoundTrips ==
    /\ Ran =>
         IF Reorder
         THEN /\ requests = <<ReadRequest, consumer_request>>
              /\ consumer_request.method = "PATCH"
              /\ consumer_request.url = <<UPDATE_PRIORITYLIST>>
              /\ consumer_request.body = request_data
         ELSE requests = <<consumer_request>>
    /\ Rejected =>
         IF Reorder /\ ValidDirection(args.direction)
         THEN requests = <<ReadRequest>>
         ELSE requests = <<>>
    /\ pc = "built" =>
         IF Reorder THEN requests = <<ReadRequest>> ELSE requests = <<>>

C13_Witness ==
    /\ Reorder
    /\ pc = "done"
    /\ response = 500
    /\ Len(requests) = 2
    /\ error = "exit_with_error"

\* C14: whatever the operation, send-testemail included, a non-success
\* response ends the process through exit_with_error (error body on the
\* error stream, exit code 1) and nothing is written on standard output.
C14_NonSuccessExits ==
    pc = "done" /\ response # 0 /\ ~Truthy(response) =>
        /\ error = "exit_with_error"
        /\ ExitCode(error) # 0
        /\ stdout = "none"

\* C15: when another party changes the service's list between the read and
\* the write of a reorder, the reorder still sends, as its second and last
\* request, the full ordering planned from the list it read; an accepted
\* write replaces the service's list by that ordering, and the client ends
\* without an error.
C15_LastWriteWins ==
    /\ Planned /\ stale =>
         /\ consumer_request.body =
                BuildPatchData(prioritylist, moneybox_id, move_direction,
                               move_steps).data
         /\ {e.moneyboxId : e \in EntriesOf(consumer_request.body)}
                = {e.moneyboxId : e \in EntriesOf(prioritylist)}
         /\ requests = <<ReadRequest>>
    /\ Reorder /\ Ran /\ stale =>
         /\ requests = <<ReadRequest, consumer_request>>
         /\ consumer_request.body = request_data
         /\ response = 200 => server = EntriesOf(request_data)
         /\ pc = "done" /\ response = 200 => error = "none" /\ stdout = "table"

\* the deleted moneybox is back in the service's list after the write
C15_Witness ==
    /\ Reorder
    /\ pc = "done"
    /\ stale
    /\ response = 200
    /\ error = "none"
    /\ Len(request_data) = MaxLen
    /\ server = EntriesOf(request_data)

\* C16: run and async_run send the same request, the partial built at
\* construction (method, url, body), exactly once, and both store the
\* response on the consumer.
C16_ModesIssueSameRequest ==
    pc \in {"ran", "done"} /\ mode \in {"run", "async_run"} =>
        /\ LastRequest = consumer_request
        /\ LastRequest.body = request_data
        /\ Len(requests) = IF Reorder THEN 2 ELSE 1
        /\ response # 0

C16_Witness ==
    /\ pc = "ran"
    /\ mode = "async_run"
    /\ consumer = "PatchMoneyboxApiConsumer"
    /\ LastRequest.kw = "json"
    /\ LastRequest.body # EmptyDict
    /\ response = 200

\* C17: an update that both clears the savings target and gives a savings
\* target >= 0 ends with typer.BadParameter and without any request.
C17_ClearAndSetRejected ==
    command = "update" /\ pc # "idle"
        /\ args.clear_savings_target /\ args.savings_target >= 0 =>
            /\ pc = "done"
            /\ error = "BadParameter: set and clear"
            /\ ExitCode(error) # 0
            /\ requests = <<>>
            /\ response = 0

C17_Witness ==
    /\ command = "update"
    /\ pc = "done"
    /\ args.clear_savings_target
    /\ args.savings_target >= 0
    /\ error = "BadParameter: set and clear"

\* C18: the body of the update-moneybox PATCH holds "name" iff the name given
\* is not empty, "savingsAmount" iff the amount given is >= 0, "savingsTarget"
\* with a number iff the target given is >= 0 and the clear flag is off,
\* "savingsTarget" null iff the clear flag is on, each with the value given,
\* and no other key.
C18_SparseMoneyboxBody ==
    command = "update" /\ pc \in {"built", "ran", "done"}
        /\ consumer = "PatchMoneyboxApiConsumer" =>
        LET body == consumer_request.body
            keys == DOMAIN body
        IN  /\ ("name" \in keys) <=> (args.name # "")
            /\ "name" \in keys => body["name"] = JStr(args.name)
            /\ ("savingsAmount" \in keys) <=> (args.savings_amount >= 0)
            /\ "savingsAmount" \in keys =>
                   body["savingsAmount"] = JInt(args.savings_amount)
            /\ ("savingsTarget" \in keys /\ body["savingsTarget"] # JNull)
                   <=> (args.savings_target >= 0 /\ ~args.clear_savings_target)
            /\ ("savingsTarget" \in keys /\ body["savingsTarget"] # JNull)
                   => body["savingsTarget"] = JInt(args.savings_target)
            /\ ("savingsTarget" \in keys /\ body["savingsTarget"] = JNull)
                   <=> args.clear_savings_target
            /\ keys \subseteq {"name", "savingsAmount", "savingsTarget"}
            /\ consumer_request.method = "PATCH"
            /\ Ran => requests = <<consumer_request>>

C18_Witness ==
    /\ command = "update"
    /\ pc = "ran"
    /\ args.name # ""
    /\ args.savings_amount < 0
    /\ args.clear_savings_target
    /\ DOMAIN LastRequest.body = {"name", "savingsTarget"}
    /\ LastRequest.body["savingsTarget"] = JNull

\* The key of each update-settings field in the body, per api_consumers module.
SettingsKey(v, field) ==
    IF v = CLI
    THEN CASE field = "send_reports_via_email" -> "sendReportsViaEmail"
           [] field = "user_email_address" -> "userEmailAddress"
           [] field = "is_automated_saving_active" -> "isAutomatedSavingActive"
           [] field = "savings_amount" -> "savingsAmount"
           [] field = "overflow_moneybox_automated_savings_mode" ->
                  "overflowMoneyboxAutomatedSavingsMode"
    ELSE field

SettingsFields ==
    {"send_reports_via_email", "user_email_address",
     "is_automated_saving_active", "savings_amount",
     "overflow_moneybox_automated_savings_mode"}

\* the caller gave a value for the field: a number >= 0, a text not empty
Supplied(field) ==
    IF field \in {"user_email_address", "overflow_moneybox_automated_savings_mode"}
    THEN args[field] # ""
    ELSE args[field] >= 0

\* the values a body may carry for what the caller gave for the field
Carried(field) ==
    CASE field \in {"send_reports_via_email", "is_automated_saving_active"} ->
           {JBool(PyBool(args[field])), JInt(args[field])}
      [] field = "savings_amount" -> {JInt(args[field])}
      [] field = "user_email_address" -> {JStr(args[field])}
      [] field = "overflow_moneybox_automated_savings_mode" ->
           {JStr(ModeName(args[field]))}

\* C19: with either api_consumers module, the body of the update-settings
\* PATCH holds the key of a field iff the caller gave a value for that field,
\* with that value, and holds no other key.
C19_SparseSettingsBody ==
    command = "update-appsettings" /\ pc \in {"built", "ran", "done"} =>
        LET body == consumer_request.body
            keys == DOMAIN body
        IN  /\ \A field \in SettingsFields :
                 /\ (SettingsKey(variant, field) \in keys) <=> Supplied(field)
                 /\ SettingsKey(variant, field) \in keys =>
                        body[SettingsKey(variant, field)] \in Carried(field)
            /\ keys \subseteq {SettingsKey(variant, field) : field \in SettingsFields}

\* C20: a direction other than "up" and "down" given to update-prioritylist
\* ends the process with typer.BadParameter and without any request, neither
\* the read of the list nor the write.
C20_UnknownDirectionNoRequest ==
    Reorder /\ pc # "idle" /\ args.direction \notin {"up", "down"} =>
        /\ pc = "done"
        /\ error = "BadParameter: unknown move direction"
        /\ ExitCode(error) # 0
        /\ requests = <<>>
        /\ response = 0

C20_Witness ==
    /\ Reorder
    /\ pc = "done"
    /\ args.direction = "sideways"
    /\ error = "BadParameter: unknown move direction"
    /\ requests = <<>>

\* C22: whatever the operation, a response of status 204 (no content) is
\* rendered as "No data" or as the operation's confirmation text and never
\* ends the process with an error or an uncaught exception.
C22_EmptySuccessRendered ==
    pc = "done" /\ response = 204 =>
        /\ error = "none"
        /\ stdout \in {"No data", "Transferred", "Deleted moneybox",
                       "Ok. Test email sent"}

\* the read inside the planning of this reorder got a non-success response
ReadFailed == Reorder /\ read_response # 0 /\ ~Truthy(read_response)

\* C23: when the read inside a reorder gets a non-success response, no
\* PATCH is sent and the process ends through exit_with_error (error body on
\* the error stream, non-zero exit code): the response is tested before its
\* body is used.
C23_FailedReadExits ==
    ReadFailed =>
        /\ pc = "done"
        /\ requests = <<ReadRequest>>
        /\ response = 0
        /\ error = "exit_with_error"
        /\ ExitCode(error) # 0

\* C24: every PATCH a reorder consumer sends is preceded, immediately, by a
\* GET /api/prioritylist of its own: running the consumer a second time reads
\* the list again.
C24_FreshReadPerRun ==
    Reorder =>
        \A k \in 1..Len(requests) :
            requests[k].method = "PATCH" =>
                k > 1 /\ requests[k - 1] = ReadRequest

\* every order in which the entries of a list can be written
Orderings(list) ==
    {[k \in 1..Len(list) |-> list[p[k]]] : p \in Permutations(1..Len(list))}

PairwiseDistinctPriorities(list) ==
    \A a, b \in 1..Len(list) : a # b => list[a].priority # list[b].priority

\* C25: for a list read with pairwise distinct priorities, the outcome of the
\* planning (the payload, or the rejection of an absent target) is the same
\* for every order in which the service could have returned the same entries.
C25_OrderIndependent ==
    (Reorder /\ read_response = 200 /\ Len(requests) = 1 /\ ~stale
        /\ PairwiseDistinctPriorities(prioritylist)) =>
        LET plan == BuildPatchData(prioritylist, moneybox_id, move_direction,
                                   move_steps)
        IN  \A other \in Orderings(prioritylist) :
                BuildPatchData(other, moneybox_id, move_direction, move_steps)
                    = plan

\* a payload planned from a list that came in another order than by priority
C25_Witness ==
    /\ Planned
    /\ Len(prioritylist) = MaxLen
    /\ prioritylist # SortedFetched
    /\ request_data # SortedFetched
    /\ request_data =
           BuildPatchData(SortedFetched, moneybox_id, move_direction,
                          move_steps).data

\* the identifier the caller gave to a command that takes one
CallerId ==
    IF command = "update" THEN args.moneybox_id ELSE args.moneybox_id[1]

\* C26: with either api_consumers module, the url of every request sent for
\* an endpoint whose text holds {moneybox_id} carries the caller's identifier
\* in that place (the source moneybox for transfer), never the placeholder.
C26_PlaceholderSubstituted ==
    \A k \in 1..Len(requests) :
        requests[k].url[1] \in Templated =>
            /\ Len(requests[k].url) = 2
            /\ requests[k].url[2] = ToString(CallerId)

\* a transaction log was received and rendered with the count the caller gave
LogsRendered ==
    command = "logs" /\ pc = "done" /\ response = 200

\* the creation times of a list of log entries
TimesOf(logs) == [k \in 1..Len(logs) |-> logs[k].createdAt]

\* C21: of a transaction log of L entries, the entries rendered are, in
\* ascending order of creation time, the min(n, L) latest ones when a count
\* n >= 0 is given (the log is cut after it is sorted, at its tail), and all
\* L entries when no count is given.
C21_LogsSortedThenTail ==
    LogsRendered =>
        LET L == Len(content)
            shown == IF args.n = <<>> THEN L ELSE Min(args.n[1], L)
        IN  /\ Len(rows) = shown
            /\ \A k \in 1..(Len(rows) - 1) :
                   rows[k].createdAt <= rows[k + 1].createdAt
            /\ EntriesOf(rows) \subseteq EntriesOf(content)
            /\ \A e \in EntriesOf(content) \ EntriesOf(rows) :
                   \A r \in EntriesOf(rows) : e.createdAt <= r.createdAt

\* C27: when the service stores the payload of a reorder as it is and nothing
\* else changes its list, a second reorder of the same target in the same
\* direction by b >= 0 steps, planned from whatever order the service returns
\* the stored list in, yields the payload a single reorder by a + b steps of
\* the list first read would have yielded, clamped moves included.
C27_SuccessiveMovesCompose ==
    (Planned /\ ~stale /\ move_steps >= 0) =>
        \A b \in 0..MaxSteps :
            LET single == BuildPatchData(prioritylist, moneybox_id,
                                         move_direction, move_steps + b)
            IN  \A stored \in Serialisations(EntriesOf(request_data)) :
                    LET second == BuildPatchData(stored, moneybox_id,
                                                 move_direction, b)
                    IN  /\ ~second.raised
                        /\ ~single.raised
                        /\ second.data = single.data

\* a first move by one step whose follow-up by two steps runs into the end
\* of the list, as the single move by three steps does
C27_Witness ==
    /\ Planned
    /\ ~stale
    /\ Len(prioritylist) = MaxLen
    /\ move_direction = UP
    /\ move_steps = 1
    /\ PosOf(SortedFetched, moneybox_id) = 2
    /\ PosOf(request_data, moneybox_id) = 1
    /\ PosOf(BuildPatchData(request_data, moneybox_id, UP, 2).data, moneybox_id) = 0
    /\ BuildPatchData(request_data, moneybox_id, UP, 2).data
           = BuildPatchData(prioritylist, moneybox_id, UP, 3).data

====
